---- MODULE Spec2Model ----
(***************************************************************************)
(* Peer session and state synchronisation of the hole game (src/main.go,   *)
(* the first program of the file, lines 1-1263).                           *)
(*                                                                         *)
(* One process is modelled: its Game struct (variable g), the goroutines   *)
(* and connections it owns (variable rt), the frames written by the last   *)
(* step (variable out) and the wall clock read by time.Now (variable now). *)
(* The peers are the environment: every frame a TCP peer can put on a      *)
(* connection is an input of the receive loop that reads it.               *)
(*                                                                         *)
(* Threads of the process: the main loop (update, once per frame), the     *)
(* goroutine of startServer (listen, then accept), the goroutines of       *)
(* connectToServer (dial, then announce) and one receive loop per          *)
(* connection (handleClient, handleServerMessages).  The code takes no     *)
(* lock, so a step of one thread may fall between any two steps of         *)
(* another.                                                                *)
(***************************************************************************)
EXTENDS Integers, Sequences, FiniteSets, TLC

VARIABLES
    g,        \* the Game struct (src/main.go:96-118)
    rt,       \* goroutines and connections of the process
    out,      \* conn.Write calls of the last step, in order
    now,      \* wall clock in seconds (time.Now)
    crashed,  \* the process has terminated on a runtime panic / fatal error
    env,      \* what the surroundings of the process offer in this behaviour
    frames,   \* a match run frame by frame: g.GameTime as the float32 it is
    board,    \* a call of getGameResults: its input and the list it returns
    codec     \* a message on its way: as sent, as on the wire, as received

vars == <<g, rt, out, now, crashed, env, frames, board, codec>>

----------------------------------------------------------------------------
(* Bounds of the model.                                                    *)

\* connections the process accepts or dials in one behaviour
MaxConns == 2
\* goroutines of connectToServer in one stage (dial, sleep) at a time; one
\* more may be dialling where a second join is issued during a dial
MaxPending == 1
\* wall-clock seconds covered by one behaviour
MaxNow == 6

ConnIds == 1..MaxConns
\* The surroundings of one behaviour: how many connections the process ever
\* gets (conns), whether the wall clock is seen to advance (clock), whether
\* the hole finds anything to eat (food), whether frames differ in their
\* payload (data), and whether a receive loop is seen between decoding a
\* message and applying it (fine), and how many goroutines of connectToServer
\* the main loop lets be inside net.Dial at once (dials).  A behaviour has one
\* of them; the model covers each of them, not their product.  Two
\* connections are what it takes for two receive loops to be between
\* decoding and applying at once, and for two dials to succeed.  In the last
\* one the clock advances while the loops of a host are there.
Scenario(conns, clock, food, data, fine, dials) ==
    [conns |-> conns, clock |-> clock, food |-> food, data |-> data,
     fine |-> fine, dials |-> dials]

Scenarios ==
    { Scenario(MaxConns, FALSE, FALSE, FALSE, FALSE, MaxPending + 1),
      Scenario(1, TRUE, FALSE, FALSE, FALSE, MaxPending),
      Scenario(1, FALSE, TRUE, TRUE, FALSE, MaxPending),
      Scenario(2, FALSE, FALSE, FALSE, TRUE, MaxPending),
      Scenario(2, TRUE, FALSE, FALSE, TRUE, 0) }

\* amounts the wall clock advances by between two steps
ClockSteps == {5, 6}
\* the id the process drew at start, and the ids frames can carry
LocalIds == {1}
FrameIds == {-1, 1, 2}
\* hole sizes frames can carry
Sizes == {0, 40}

----------------------------------------------------------------------------
(* Program constants.                                                      *)

MinPlayers == 2
MatchSeconds == 120
TickRate == 60
BroadcastInterval == 10
StaleSeconds == 5
NumColors == 6
StartSize == 20
NoConn == 0

\* frame times (GetFrameTime), in sixtieths of a second: none, a minute, and
\* a minute and five ticks
LongFrame == 60 * TickRate
Deltas == {0, LongFrame, LongFrame + 5}

\* Go's remainder: truncated division, the sign follows the dividend
GoMod(a, n) == IF a >= 0 THEN a % n ELSE 0 - ((0 - a) % n)

----------------------------------------------------------------------------
(* The Game struct after NewGame.                                          *)

\* make(map[int]*NetworkPlayer)
EmptyMap == [i \in {} |-> [Size |-> 0, LastSeen |-> 0]]

NewGame(pid) ==
    [ State          |-> "Menu",
      Player         |-> [Size |-> 0, Score |-> 0],
      NetworkPlayers |-> EmptyMap,
      GameTime       |-> 0,
      MaxGameTime    |-> 0,
      IsHost         |-> FALSE,
      ServerConn     |-> NoConn,
      ClientConns    |-> <<>>,
      PlayerID       |-> pid,
      InputActive    |-> FALSE,
      LobbyReady     |-> FALSE,
      GameStarted    |-> FALSE ]

\* a connection slot: st is the local end, pc the position of its receive loop
FreeConn == [st |-> "free", pc |-> "none", kind |-> "none"]

NewRuntime ==
    [ listenQ   |-> 0,       \* startServer goroutines that have not called Listen yet
      listening |-> FALSE,   \* the accept loop of this process holds port 8080
      dialQ     |-> 0,       \* connectToServer goroutines inside net.Dial
      announceQ |-> 0,       \* connectToServer goroutines inside time.Sleep
      conn      |-> [c \in ConnIds |-> FreeConn],
      since     |-> [c \in ConnIds |-> 0] ]  \* the clock when the loop of c got its message

\* the machine a handler runs on: the struct, the runtime, and what it wrote
Machine(gm, r) == [g |-> gm, rt |-> r, out |-> <<>>, calls |-> {}]

Peers(gm) == DOMAIN gm.NetworkPlayers
PlayerCount(gm) == Cardinality(Peers(gm)) + 1
HasRole(gm) == gm.IsHost \/ gm.ServerConn # NoConn

----------------------------------------------------------------------------
(* Frames.  A frame that json.Decoder cannot decode into a NetworkMessage  *)
(* is not a value here: it is the failure input of the receive loop        *)
(* (RecvFail).  bad marks a frame whose data does not decode as the        *)
(* payload of its type: json.Unmarshal fails and leaves the zero payload.  *)

Frame(type, id, size, count, started, ready, ip, bad) ==
    [type |-> type, id |-> id, size |-> size, count |-> count,
     started |-> started, ready |-> ready, ip |-> ip, bad |-> bad]

InFrames ==
    { Frame("player_update", i, s, 0, FALSE, FALSE, FALSE, FALSE) : i \in FrameIds, s \in Sizes }
    \cup { Frame("player_update", i, 40, 0, FALSE, FALSE, FALSE, TRUE) : i \in FrameIds }
    \cup { Frame("lobby_update", i, 0, n, b, FALSE, FALSE, FALSE) :
               i \in FrameIds, n \in {2, 3}, b \in BOOLEAN }
    \cup { Frame("chat", i, 0, 0, FALSE, FALSE, FALSE, FALSE) : i \in FrameIds }

\* the frames of a behaviour whose frames do not differ in their payload and
\* in which no peer has drawn the id of this process
PlainFrames ==
    {f \in InFrames : /\ ~f.bad
                      /\ f.id \notin LocalIds
                      /\ f.count \in {0, 2}
                      /\ f.type = "player_update" => f.size = 40}

\* conn.Write(data); conn.Write("\n") on connection c: the error is dropped
Write(m, c, f) ==
    [m EXCEPT !.out = Append(@, [to |-> c, frame |-> f, ok |-> m.rt.conn[c].st = "open"])]

RECURSIVE WriteAll_StopOnError(_, _, _)
\* WriteAll had a failed write ended the loop
WriteAll_StopOnError(m, cs, f) ==
    IF cs = <<>> THEN m
    ELSE IF m.rt.conn[Head(cs)].st # "open" THEN Write(m, Head(cs), f)
    ELSE WriteAll_StopOnError(Write(m, Head(cs), f), Tail(cs), f)

RECURSIVE WriteAll(_, _, _)
\* for _, conn := range g.ClientConns { conn.Write(...) }
WriteAll(m, cs, f) ==
    IF cs = <<>> THEN m ELSE WriteAll(Write(m, Head(cs), f), Tail(cs), f)

\* host: every client connection; client: the server connection; else nothing
Broadcast(m, f) ==
    IF m.g.IsHost THEN WriteAll(m, m.g.ClientConns, f)
    ELSE IF m.g.ServerConn # NoConn THEN Write(m, m.g.ServerConn, f)
    ELSE m

Called(m, fn) == [m EXCEPT !.calls = @ \cup {fn}]

----------------------------------------------------------------------------
(* The functions of Game, each from the struct before to the struct after. *)

initSinglePlayer(m) ==
    [m EXCEPT !.g.State = "SinglePlayer",
              !.g.Player = [Size |-> StartSize, Score |-> 0],
              !.g.GameTime = 0,
              !.g.MaxGameTime = MatchSeconds * TickRate]

\* go func() { net.Listen ... }: the goroutine is started, nothing else yet
startServer(m) == [m EXCEPT !.rt.listenQ = @ + 1]

\* connectToServer had it entered the lobby before dialing
connectToServer_LobbyBeforeDial(m) ==
    [m EXCEPT !.rt.dialQ = @ + 1, !.g.State = "Lobby"]

\* go func() { net.Dial ... }
connectToServer(m) == [m EXCEPT !.rt.dialQ = @ + 1]

sendLobbyUpdate(m) ==
    Broadcast(Called(m, "sendLobbyUpdate"),
              Frame("lobby_update", m.g.PlayerID, 0, PlayerCount(m.g),
                    m.g.GameStarted, m.g.LobbyReady, m.g.IsHost, FALSE))

startGame(m) ==
    sendLobbyUpdate(
        [Called(m, "startGame") EXCEPT !.g.GameStarted = TRUE,
                                       !.g.State = "Gameplay",
                                       !.g.GameTime = 0])

sendPlayerUpdate(m) ==
    Broadcast(Called(m, "sendPlayerUpdate"),
              Frame("player_update", m.g.PlayerID, m.g.Player.Size, 0,
                    FALSE, FALSE, FALSE, FALSE))

\* handleMenuInput had the host selection gone straight into the match
handleMenuInput_HostIntoMatch(m, k) ==
    IF ~k.enter THEN m
    ELSE CASE k.sel = 0 -> [initSinglePlayer(m) EXCEPT !.g.State = "Gameplay"]
           [] k.sel = 1 -> [initSinglePlayer(startServer(m)) EXCEPT !.g.State = "Gameplay"]
           [] OTHER     -> [m EXCEPT !.g.InputActive = TRUE]

\* keys pressed in the frame; sel is the menu entry the cursor is on
handleMenuInput(m, k) ==
    IF ~k.enter THEN m
    ELSE CASE k.sel = 0 -> [initSinglePlayer(m) EXCEPT !.g.State = "Gameplay"]
           [] k.sel = 1 -> [initSinglePlayer(startServer(m)) EXCEPT !.g.State = "Lobby"]
           [] OTHER     -> [m EXCEPT !.g.InputActive = TRUE]

handleTextInput(m, k) ==
    LET m1 == IF k.enter
              THEN [connectToServer(m) EXCEPT !.g.InputActive = FALSE]
              ELSE m
    IN  IF k.escape THEN [m1 EXCEPT !.g.InputActive = FALSE] ELSE m1

\* g.ServerConn.Close(); g.ServerConn = nil
closeServerConn(m) ==
    IF m.g.ServerConn # NoConn
    THEN [m EXCEPT !.rt.conn[m.g.ServerConn].st = "closed", !.g.ServerConn = NoConn]
    ELSE m

\* toggleReady without the g.IsHost condition
toggleReady_AnyRole(m) ==
    LET a == [Called(m, "toggleReady") EXCEPT !.g.LobbyReady = ~@]
        b == IF PlayerCount(a.g) >= MinPlayers /\ a.g.LobbyReady
             THEN startGame(a) ELSE a
    IN  sendLobbyUpdate(b)

toggleReady(m) ==
    LET a == [Called(m, "toggleReady") EXCEPT !.g.LobbyReady = ~@]
        b == IF a.g.IsHost /\ PlayerCount(a.g) >= MinPlayers /\ a.g.LobbyReady
             THEN startGame(a) ELSE a
    IN  sendLobbyUpdate(b)

handleLobbyInput(m, k) ==
    LET m1 == IF k.space THEN toggleReady(m) ELSE m
    IN  IF k.escape
        THEN closeServerConn([m1 EXCEPT !.g.State = "Menu",
                                        !.g.LobbyReady = FALSE,
                                        !.g.GameStarted = FALSE])
        ELSE m1

\* handleGameOverInput had a networked process replayed without the lobby
handleGameOverInput_Rematch(m, k) ==
    IF ~(k.enter \/ k.space) THEN m
    ELSE IF HasRole(m.g)
    THEN [m EXCEPT !.g.State = "Gameplay",
                   !.g.GameTime = 0,
                   !.g.LobbyReady = FALSE,
                   !.g.GameStarted = FALSE,
                   !.g.Player = [Size |-> StartSize, Score |-> 0]]
    ELSE [m EXCEPT !.g.State = "Menu",
                   !.g.GameTime = 0,
                   !.g.NetworkPlayers = EmptyMap,
                   !.g.LobbyReady = FALSE,
                   !.g.GameStarted = FALSE]

\* handleGameOverInput had the return to the lobby forgotten the peers too
handleGameOverInput_DropPeers(m, k) ==
    IF ~(k.enter \/ k.space) THEN m
    ELSE [m EXCEPT !.g.State = IF HasRole(m.g) THEN "Lobby" ELSE "Menu",
                   !.g.GameTime = 0,
                   !.g.NetworkPlayers = EmptyMap,
                   !.g.LobbyReady = FALSE,
                   !.g.GameStarted = FALSE,
                   !.g.Player = IF HasRole(m.g)
                                THEN [Size |-> StartSize, Score |-> 0] ELSE @]

handleGameOverInput(m, k) ==
    IF ~(k.enter \/ k.space) THEN m
    ELSE IF HasRole(m.g)
    THEN [m EXCEPT !.g.State = "Lobby",
                   !.g.GameTime = 0,
                   !.g.LobbyReady = FALSE,
                   !.g.GameStarted = FALSE,
                   !.g.Player = [Size |-> StartSize, Score |-> 0]]
    ELSE [m EXCEPT !.g.State = "Menu",
                   !.g.GameTime = 0,
                   !.g.NetworkPlayers = EmptyMap,
                   !.g.LobbyReady = FALSE,
                   !.g.GameStarted = FALSE]

\* colors[msg.PlayerID%len(colors)] with a negative remainder: index out of range
NewPlayerPanics(id) == GoMod(id, NumColors) < 0

\* the record of a peer seen for the first time
NewNetworkPlayer == [Size |-> 0, LastSeen |-> 0]

\* Upsert had the new record replaced the map
Upsert_Alone(peers, id) ==
    IF id \in DOMAIN peers THEN (id :> peers[id]) ELSE (id :> NewNetworkPlayer)

Upsert(peers, id) ==
    IF id \in DOMAIN peers THEN peers ELSE (id :> NewNetworkPlayer) @@ peers

\* the payload json.Unmarshal leaves in update: the zero value when it fails
DecodedSize(msg) == IF msg.bad THEN 0 ELSE msg.size
DecodedStarted(msg) == IF msg.bad THEN FALSE ELSE msg.started

\* whether processing msg ends the process
Panics(m, msg) ==
    /\ msg.type \in {"player_update", "lobby_update"}
    /\ msg.id \notin Peers(m.g)
    /\ NewPlayerPanics(msg.id)

\* processNetworkMessage had the receiver of a start taken the flag over
processNetworkMessage_MarksStarted(m, msg, t) ==
    CASE msg.type = "player_update" ->
            [m EXCEPT !.g.NetworkPlayers =
                [Upsert(@, msg.id) EXCEPT ![msg.id] =
                    [Size |-> DecodedSize(msg), LastSeen |-> t]]]
      [] msg.type = "lobby_update" ->
            LET m1 == [m EXCEPT !.g.NetworkPlayers =
                          [Upsert(@, msg.id) EXCEPT ![msg.id].LastSeen = t]]
            IN  IF DecodedStarted(msg) /\ m1.g.State = "Lobby"
                THEN [m1 EXCEPT !.g.State = "Gameplay", !.g.GameTime = 0,
                                !.g.GameStarted = TRUE]
                ELSE m1
      [] OTHER -> m

\* processNetworkMessage without the g.State == StateLobby condition
processNetworkMessage_AnyState(m, msg, t) ==
    CASE msg.type = "player_update" ->
            [m EXCEPT !.g.NetworkPlayers =
                [Upsert(@, msg.id) EXCEPT ![msg.id] =
                    [Size |-> DecodedSize(msg), LastSeen |-> t]]]
      [] msg.type = "lobby_update" ->
            LET m1 == [m EXCEPT !.g.NetworkPlayers =
                          [Upsert(@, msg.id) EXCEPT ![msg.id].LastSeen = t]]
            IN  IF DecodedStarted(msg)
                THEN [m1 EXCEPT !.g.State = "Gameplay", !.g.GameTime = 0]
                ELSE m1
      [] OTHER -> m

\* t is time.Now()
processNetworkMessage(m, msg, t) ==
    CASE msg.type = "player_update" ->
            [m EXCEPT !.g.NetworkPlayers =
                [Upsert(@, msg.id) EXCEPT ![msg.id] =
                    [Size |-> DecodedSize(msg), LastSeen |-> t]]]
      [] msg.type = "lobby_update" ->
            LET m1 == [m EXCEPT !.g.NetworkPlayers =
                          [Upsert(@, msg.id) EXCEPT ![msg.id].LastSeen = t]]
            IN  IF DecodedStarted(msg) /\ m1.g.State = "Lobby"
                THEN [m1 EXCEPT !.g.State = "Gameplay", !.g.GameTime = 0]
                ELSE m1
      [] OTHER -> m

\* sweepStale with >= in place of >
sweepStale_AtFive(peers, t) ==
    LET keep == {i \in DOMAIN peers : ~(t - peers[i].LastSeen >= StaleSeconds)}
    IN  [i \in keep |-> peers[i]]

\* delete every player with time.Since(player.LastSeen) > 5*time.Second
sweepStale(peers, t) ==
    LET keep == {i \in DOMAIN peers : ~(t - peers[i].LastSeen > StaleSeconds)}
    IN  [i \in keep |-> peers[i]]

\* simulate had the broadcast gone out on every frame
simulate_EveryFrame(m, k) ==
    LET m1 == IF k.eat /\ m.g.Player.Size = StartSize
              THEN [m EXCEPT !.g.Player = [Size |-> StartSize + 10, Score |-> 1]]
              ELSE m
    IN  IF m1.g.State = "Gameplay" /\ HasRole(m1.g)
        THEN sendPlayerUpdate(m1) ELSE m1

\* the part of update after the state switch: movement and eating (k.eat:
\* the hole ate something this frame), then the broadcast
simulate(m, k) ==
    LET m1 == IF k.eat /\ m.g.Player.Size = StartSize
              THEN [m EXCEPT !.g.Player = [Size |-> StartSize + 10, Score |-> 1]]
              ELSE m
    IN  IF m1.g.State = "Gameplay" /\ HasRole(m1.g)
           /\ m1.g.GameTime % BroadcastInterval = 0
        THEN sendPlayerUpdate(m1) ELSE m1

\* update had the sweep run in the lobby as well
update_SweepInLobby(m, dt, k, t) ==
    CASE m.g.State = "Menu" ->
            IF m.g.InputActive THEN handleTextInput(m, k) ELSE handleMenuInput(m, k)
      [] m.g.State = "Lobby" ->
            handleLobbyInput([m EXCEPT !.g.NetworkPlayers = sweepStale(@, t)], k)
      [] m.g.State = "GameOver" -> handleGameOverInput(m, k)
      [] m.g.State = "Gameplay" ->
            LET m1 == IF m.g.GameTime < m.g.MaxGameTime
                      THEN [m EXCEPT !.g.GameTime = @ + dt] ELSE m
                m2 == [m1 EXCEPT !.g.NetworkPlayers = sweepStale(@, t)]
            IN  IF m2.g.GameTime >= m2.g.MaxGameTime
                THEN [m2 EXCEPT !.g.State = "GameOver"]
                ELSE simulate(m2, k)
      [] OTHER -> m

\* dt is deltaTime in sixtieths of a second, t is the wall clock
update(m, dt, k, t) ==
    CASE m.g.State = "Menu" ->
            IF m.g.InputActive THEN handleTextInput(m, k) ELSE handleMenuInput(m, k)
      [] m.g.State = "Lobby" -> handleLobbyInput(m, k)
      [] m.g.State = "GameOver" -> handleGameOverInput(m, k)
      [] m.g.State = "Gameplay" ->
            LET m1 == IF m.g.GameTime < m.g.MaxGameTime
                      THEN [m EXCEPT !.g.GameTime = @ + dt] ELSE m
                m2 == [m1 EXCEPT !.g.NetworkPlayers = sweepStale(@, t)]
            IN  IF m2.g.GameTime >= m2.g.MaxGameTime
                THEN [m2 EXCEPT !.g.State = "GameOver"]
                ELSE simulate(m2, k)
      [] OTHER -> m

----------------------------------------------------------------------------
(* The state machine.                                                      *)

M == Machine(g, rt)

\* no match is being run frame by frame, no ranking is being computed
NoFrames == [time |-> 0, n |-> 0, sent |-> {}]
NoBoard == [unsorted |-> <<>>, results |-> <<>>]
\* no message is followed on its way
NoCodec == [stage |-> "none"]

Key(enter, space, escape, sel, eat) ==
    [enter |-> enter, space |-> space, escape |-> escape, sel |-> sel, eat |-> eat]

\* the key combinations of one frame that the handlers tell apart
Keys ==
    { Key(FALSE, FALSE, FALSE, 0, e) : e \in BOOLEAN }
    \cup { Key(TRUE, FALSE, FALSE, s, FALSE) : s \in 0..2 }
    \cup { Key(FALSE, TRUE, FALSE, 0, FALSE),
           Key(FALSE, FALSE, TRUE, 0, FALSE),
           Key(FALSE, TRUE, TRUE, 0, FALSE),
           Key(TRUE, FALSE, TRUE, 2, FALSE) }

FreeIds == {c \in ConnIds : rt.conn[c].st = "free"}
\* the surroundings still have a connection to give
CanConnect == FreeIds # {} /\ Cardinality(ConnIds \ FreeIds) < env.conns
\* the connection a new accept or dial gets
NextFree == CHOOSE c \in FreeIds : \A d \in FreeIds : c <= d

Step(m) ==
    /\ g' = m.g
    /\ rt' = m.rt
    /\ out' = m.out

Init ==
    /\ g \in {NewGame(pid) : pid \in LocalIds}
    /\ rt = NewRuntime
    /\ out = <<>>
    /\ now = 0
    /\ crashed = FALSE
    /\ env \in Scenarios
    /\ frames = NoFrames
    /\ board = NoBoard
    /\ codec = NoCodec

\* one iteration of the main loop: game.update(deltaTime)
Tick(dt, k) ==
    /\ ~crashed
    /\ rt.listenQ = 0
    /\ g.State # "Gameplay" => dt = 0
    /\ k.eat => env.food
    /\ LET m == update(M, dt, k, now)
       IN  /\ m.rt.dialQ <= env.dials
           /\ Step(m)
    /\ UNCHANGED <<now, crashed, env, frames, board, codec>>

\* the goroutine of startServer reaches net.Listen: the port is free or not
Listen(ok) ==
    /\ ~crashed
    /\ rt.listenQ > 0
    /\ ok => ~rt.listening
    /\ Step([M EXCEPT !.rt.listenQ = @ - 1,
                      !.rt.listening = @ \/ ok,
                      !.g.IsHost = @ \/ ok])
    /\ UNCHANGED <<now, crashed, env, frames, board, codec>>

\* the accept loop registers connection c and starts handleClient on it, which
\* first sends the new client the lobby state and then waits in Decode
accepted(m, c) ==
    sendLobbyUpdate([m EXCEPT !.g.ClientConns = Append(@, c),
                              !.rt.conn[c] =
                                  [st |-> "open", pc |-> "read", kind |-> "accepted"]])

\* listener.Accept returns a connection
Accept ==
    /\ ~crashed
    /\ rt.listening
    /\ CanConnect
    /\ Step(accepted(M, NextFree))
    /\ UNCHANGED <<now, crashed, env, frames, board, codec>>

\* what a connectToServer goroutine does once net.Dial has returned conn c
connected(m, c) ==
    [initSinglePlayer([m EXCEPT !.g.ServerConn = c])
        EXCEPT !.g.State = "Lobby",
               !.rt.conn[c] = [st |-> "open", pc |-> "read", kind |-> "dialed"],
               !.rt.announceQ = @ + 1]

\* net.Dial returns in a goroutine of connectToServer
Dial(ok) ==
    /\ ~crashed
    /\ rt.dialQ > 0
    /\ ok => (CanConnect /\ rt.announceQ < MaxPending)
    /\ LET m == [M EXCEPT !.rt.dialQ = @ - 1]
       IN  Step(IF ok THEN connected(m, NextFree) ELSE m)
    /\ UNCHANGED <<now, crashed, env, frames, board, codec>>

\* the goroutine of connectToServer wakes from its sleep and announces itself
Announce ==
    /\ ~crashed
    /\ rt.announceQ > 0
    /\ Step(sendLobbyUpdate([M EXCEPT !.rt.announceQ = @ - 1]))
    /\ UNCHANGED <<now, crashed, env, frames, board, codec>>

\* decoder.Decode returns a message: the loop enters processNetworkMessage.
\* Which message it was is an input of Process: nothing reads it in between.
Decode(c) ==
    /\ ~crashed
    /\ env.fine
    /\ rt.conn[c].pc = "read"
    /\ rt.conn[c].st = "open"
    /\ Step([M EXCEPT !.rt.conn[c].pc = "proc", !.rt.since[c] = now])
    /\ UNCHANGED <<now, crashed, env, frames, board, codec>>

\* decoder.Decode returns an error (stream error, closed connection, malformed
\* frame): the loop ends; handleClient closes its connection
RecvFail(c) ==
    /\ ~crashed
    /\ rt.conn[c].pc = "read"
    /\ Step([M EXCEPT !.rt.conn[c].pc = "done",
                      !.rt.conn[c].st =
                          IF rt.conn[c].kind = "accepted" THEN "closed" ELSE @])
    /\ UNCHANGED <<now, crashed, env, frames, board, codec>>

\* the loop of c has a decoded message in hand
Reading(c) ==
    IF env.fine THEN rt.conn[c].pc = "proc"
    ELSE rt.conn[c].pc = "read" /\ rt.conn[c].st = "open"

\* the frames that can arrive in this behaviour
Arriving == IF env.data THEN InFrames ELSE PlainFrames

\* the body of a receive loop for message msg
received(m, c, msg, t) ==
    LET m1 == processNetworkMessage(m, msg, t)
    IN  IF m.rt.conn[c].kind = "accepted" /\ msg.type = "lobby_update"
        THEN sendLobbyUpdate(m1) ELSE m1

\* the values time.Now() can have returned to the loop of c when it stores
\* them: the loop read the clock at some moment since it got its message
Stamps(c) == IF env.fine THEN {rt.since[c], now} ELSE {now}

\* processNetworkMessage(msg) returns in the loop of connection c
Process(c, msg) ==
    /\ ~crashed
    /\ Reading(c)
    /\ msg \in Arriving
    /\ ~Panics(M, msg)
    /\ \E t \in Stamps(c) :
           Step(received([M EXCEPT !.rt.conn[c].pc = "read", !.rt.since[c] = 0], c, msg, t))
    /\ UNCHANGED <<now, crashed, env, frames, board, codec>>

\* the runtime of a process that has ended: no goroutine is left and the
\* system has closed every connection
Terminated(r) ==
    [ listenQ |-> 0, listening |-> FALSE, dialQ |-> 0, announceQ |-> 0,
      conn |-> [c \in ConnIds |->
                  IF r.conn[c].st = "free" THEN r.conn[c]
                  ELSE [r.conn[c] EXCEPT !.st = "closed", !.pc = "done"]],
      since |-> [c \in ConnIds |-> 0] ]

\* the process ends where it is
Exit ==
    /\ crashed' = TRUE
    /\ rt' = Terminated(rt)
    /\ out' = <<>>
    /\ UNCHANGED <<g, now, env, frames, board, codec>>

\* processNetworkMessage(msg) panics: the runtime ends the process
Panic(c, msg) ==
    /\ ~crashed
    /\ Reading(c)
    /\ msg \in Arriving
    /\ Panics(M, msg)
    /\ Exit

\* receive loops that are inside processNetworkMessage, on the peer map
InMap == {c \in ConnIds : rt.conn[c].pc = "proc"}

\* The runtime detects an unsynchronised map access and ends the process
\* ("fatal error: concurrent map writes", "concurrent map iteration and map
\* write"): two loops are in the map at once, or one is while the main loop
\* sweeps it.
MapFault ==
    /\ ~crashed
    /\ InMap # {}
    /\ Cardinality(InMap) > 1 \/ g.State = "Gameplay"
    /\ Exit

\* time passes
Advance(d) ==
    /\ ~crashed
    /\ env.clock
    /\ now + d <= MaxNow
    /\ now' = now + d
    /\ UNCHANGED <<g, rt, out, crashed, env, frames, board, codec>>

Next ==
    \/ \E dt \in Deltas, k \in Keys : Tick(dt, k)
    \/ \E ok \in BOOLEAN : Listen(ok)
    \/ Accept
    \/ \E ok \in BOOLEAN : Dial(ok)
    \/ Announce
    \/ \E c \in ConnIds : Decode(c)
    \/ \E c \in ConnIds : RecvFail(c)
    \/ \E c \in ConnIds, msg \in InFrames : Process(c, msg)
    \/ \E c \in ConnIds, msg \in InFrames : Panic(c, msg)
    \/ MapFault
    \/ \E d \in ClockSteps : Advance(d)

Spec == Init /\ [][Next]_vars

\* a frame of the running match: the window is open, so the main loop comes
\* round to game.update again with a frame time above zero
PlayTick == \E dt \in Deltas \ {0}, k \in Keys : Tick(dt, k)

\* the main loop keeps running for as long as the process lives
LiveSpec == Spec /\ WF_vars(PlayTick)

----------------------------------------------------------------------------
(* A match frame by frame.  g.GameTime and deltaTime are float32: a value  *)
(* is held as the number of 2^-29 seconds it is worth, which is exact for  *)
(* every float32 from 1/64 s up, and every operation rounds its exact      *)
(* result to 24 significant bits, to nearest, ties to even.                *)

\* frames of one match that are run one by one
MaxFrames == 130

\* significant bits of a float32
Significand == 24
\* a second, in units of 2^-29 s
TimeUnit == 2^29
\* deltaTime of a frame at 60 frames per second: the float32 nearest to 1/60
FrameTime == (TimeUnit + TickRate \div 2) \div TickRate

RECURSIVE BitLen(_)
BitLen(n) == IF n = 0 THEN 0 ELSE 1 + BitLen(n \div 2)

\* the bits of n below its 24 most significant ones
Excess(n) == IF BitLen(n) > Significand THEN BitLen(n) - Significand ELSE 0

\* the float32 nearest to the exact value n
F32Round(n) ==
    LET s == Excess(n)
        q == n \div 2^s
        r == n % 2^s
        up == s > 0 /\ (2 * r > 2^s \/ (2 * r = 2^s /\ q % 2 = 1))
    IN  (IF up THEN q + 1 ELSE q) * 2^s

\* g.GameTime += deltaTime
F32Add(a, b) == F32Round(a + b)

\* int(g.GameTime*60): the float32 product, truncated
FrameNumber(t) ==
    LET s == Excess(t)
        p == F32Round((t \div 2^s) * TickRate)
    IN  p \div 2^(Significand + 5 - s)

\* a match that starts: the game after startGame, alone, as host or as client
Matches ==
    { [initSinglePlayer(Machine(NewGame(pid), NewRuntime)).g
          EXCEPT !.State = "Gameplay", !.IsHost = h, !.ServerConn = c] :
      pid \in LocalIds, h \in BOOLEAN, c \in {NoConn, 1} }

CadenceInit ==
    /\ g \in Matches
    /\ rt = [NewRuntime EXCEPT
                !.listening = g.IsHost,
                !.conn[1] = IF g.ServerConn = NoConn THEN @
                            ELSE [st |-> "open", pc |-> "read", kind |-> "dialed"]]
    /\ out = <<>>
    /\ now = 0
    /\ crashed = FALSE
    /\ env = Scenario(1, FALSE, FALSE, FALSE, FALSE, MaxPending)
    /\ frames = NoFrames
    /\ board = NoBoard
    /\ codec = NoCodec

\* update(deltaTime) in Gameplay for a frame of 1/60 s: the clock of the
\* match, its end, and the broadcast test at the end of the function
Frame60 ==
    /\ g.State = "Gameplay"
    /\ frames.n < MaxFrames
    /\ LET t == IF frames.time \div TimeUnit < MatchSeconds
                THEN F32Add(frames.time, FrameTime) ELSE frames.time
           over == t \div TimeUnit >= MatchSeconds
           send == ~over /\ HasRole(g) /\ FrameNumber(t) % BroadcastInterval = 0
       IN  /\ g' = IF over THEN [g EXCEPT !.State = "GameOver"] ELSE g
           /\ frames' = [time |-> t, n |-> frames.n + 1,
                         sent |-> IF send THEN frames.sent \cup {frames.n + 1}
                                  ELSE frames.sent]
    /\ UNCHANGED <<rt, out, now, crashed, env, board, codec>>

CadenceNext == Frame60

CadenceSpec == CadenceInit /\ [][CadenceNext]_vars

----------------------------------------------------------------------------
(* The ranking of the GameOver screen.  A PlayerResult is held with its    *)
(* Name and Size; its Score is carried along and never compared.           *)

\* peers on record when the match ends
MaxPeers == 3

\* ids of the peers, and the sizes holes have at the end of a match
RankIds == 2..(MaxPeers + 1)
RankSizes == {30, 40, 55}

\* Name: fmt.Sprintf("Player %d", msg.PlayerID)
PeerName(id) == "Player " \o ToString(id)

\* the orders in which range g.NetworkPlayers can visit the keys P
Orders(P) ==
    {o \in [1..Cardinality(P) -> P] : \A i, j \in DOMAIN o : o[i] = o[j] => i = j}

\* results before the sort: the local player, then the peers as visited
Unsorted(gm, order) ==
    <<[Name |-> "You", Size |-> gm.Player.Size]>>
    \o [i \in DOMAIN order |->
           [Name |-> PeerName(order[i]), Size |-> gm.NetworkPlayers[order[i]].Size]]

\* the comparison had been the other way round
Outranks_Ascending(a, b) == a.Size < b.Size

\* results[j].Size > results[i].Size, for a == results[j] and b == results[i]
Outranks(a, b) == a.Size > b.Size

\* results[i], results[j] = results[j], results[i]
Swap(r, i, j) == [r EXCEPT ![i] = r[j], ![j] = r[i]]

\* the inner loop from j on (indices from 1)
RECURSIVE SortFrom(_, _, _)
SortFrom(r, i, j) ==
    IF j > Len(r) THEN r
    ELSE SortFrom(IF Outranks(r[j], r[i]) THEN Swap(r, i, j) ELSE r, i, j + 1)

\* the outer loop from i on
RECURSIVE SortAll(_, _)
SortAll(r, i) ==
    IF i > Len(r) - 1 THEN r ELSE SortAll(SortFrom(r, i, i + 1), i + 1)

getGameResults(gm, order) == SortAll(Unsorted(gm, order), 1)

\* the ends of a match: any local size, any peers on record with any sizes
Finals ==
    { [initSinglePlayer(Machine(NewGame(pid), NewRuntime)).g
          EXCEPT !.State = "GameOver", !.IsHost = TRUE,
                 !.Player.Size = z, !.NetworkPlayers = peers] :
      pid \in LocalIds, z \in RankSizes,
      peers \in UNION { [P -> [Size : RankSizes, LastSeen : {0}]] : P \in SUBSET RankIds } }

RankInit ==
    /\ g \in Finals
    /\ rt = [NewRuntime EXCEPT !.listening = TRUE]
    /\ out = <<>>
    /\ now = 0
    /\ crashed = FALSE
    /\ env = Scenario(1, FALSE, FALSE, FALSE, FALSE, MaxPending)
    /\ frames = NoFrames
    /\ board = NoBoard
    /\ codec = NoCodec

\* drawGameOver calls getGameResults; the map is visited in some order
Rank(order) ==
    /\ g.State = "GameOver"
    /\ board' = [unsorted |-> Unsorted(g, order), results |-> getGameResults(g, order)]
    /\ UNCHANGED <<g, rt, out, now, crashed, env, frames, codec>>

RankNext == \E order \in Orders(Peers(g)) : Rank(order)

RankSpec == RankInit /\ [][RankNext]_vars

----------------------------------------------------------------------------
(* A message on its way.  The sender marshals a NetworkMessage whose Data  *)
(* is a LobbyUpdate or a PlayerUpdate; the receiver decodes the frame into *)
(* a NetworkMessage whose Data is a generic map, marshals that map again   *)
(* and unmarshals the result into the struct of the message's type.  A     *)
(* JSON object is the record of its members.  Numbers travel as float64:   *)
(* the integers and float32 values of the game are exact in it.            *)

\* player ids, participant counts, addresses, sizes and scores of messages
WireIds == {0, 1, 9999}
WireCounts == {0, 1, 3}
WireAddrs == {"", "192.168.1.5:8080"}
WireSizes == {0, 20, 2^24}
WireScores == {0, 7, 2^24 + 1}

LobbyPayloads ==
    [PlayerCount : WireCounts, GameStarted : BOOLEAN, HostReady : BOOLEAN,
     ServerIP : WireAddrs]

PlayerPayloads ==
    [Position : [X : {0, 1000}, Y : {0}], Size : WireSizes, Score : WireScores,
     Animation : {0}]

\* the messages sendLobbyUpdate and sendPlayerUpdate build
NetworkMessages ==
    [Type : {"lobby_update"}, PlayerID : WireIds, Data : LobbyPayloads]
    \cup [Type : {"player_update"}, PlayerID : WireIds, Data : PlayerPayloads]

\* json.Marshal of a LobbyUpdate: server_ip has omitempty
MarshalLobby(u) ==
    LET w == [player_count |-> u.PlayerCount, game_started |-> u.GameStarted,
              host_ready |-> u.HostReady]
    IN  IF u.ServerIP = "" THEN w ELSE ("server_ip" :> u.ServerIP) @@ w

\* json.Marshal of a PlayerUpdate; Vector2 has no tags
MarshalPlayer(u) ==
    [position |-> [X |-> u.Position.X, Y |-> u.Position.Y],
     size |-> u.Size, score |-> u.Score, animation |-> u.Animation]

\* data, _ := json.Marshal(msg)
Marshal(msg) ==
    [type |-> msg.Type, player_id |-> msg.PlayerID,
     data |-> IF msg.Type = "lobby_update" THEN MarshalLobby(msg.Data)
              ELSE MarshalPlayer(msg.Data)]

\* the member key of the object w, or the zero value the struct field keeps
Member(w, key, zero) == IF key \in DOMAIN w THEN w[key] ELSE zero

\* json.Unmarshal had host_ready read the member game_started
UnmarshalLobby_WrongTag(w) ==
    [PlayerCount |-> Member(w, "player_count", 0),
     GameStarted |-> Member(w, "game_started", FALSE),
     HostReady   |-> Member(w, "game_started", FALSE),
     ServerIP    |-> Member(w, "server_ip", "")]

\* json.Unmarshal(data, &update) for var update LobbyUpdate
UnmarshalLobby(w) ==
    [PlayerCount |-> Member(w, "player_count", 0),
     GameStarted |-> Member(w, "game_started", FALSE),
     HostReady   |-> Member(w, "host_ready", FALSE),
     ServerIP    |-> Member(w, "server_ip", "")]

\* json.Unmarshal(data, &update) for var update PlayerUpdate: a number is
\* rounded to the float32 of its field
UnmarshalPlayer(w) ==
    LET p == Member(w, "position", [X |-> 0, Y |-> 0])
    IN  [Position  |-> [X |-> F32Round(Member(p, "X", 0)), Y |-> F32Round(Member(p, "Y", 0))],
         Size      |-> F32Round(Member(w, "size", 0)),
         Score     |-> Member(w, "score", 0),
         Animation |-> F32Round(Member(w, "animation", 0))]

\* decoder.Decode(&msg), then the switch of processNetworkMessage on msg.Type
Unmarshal(w) ==
    [Type |-> w.type, PlayerID |-> w.player_id,
     Data |-> IF w.type = "lobby_update" THEN UnmarshalLobby(w.data)
              ELSE UnmarshalPlayer(w.data)]

CodecInit ==
    /\ g \in {NewGame(pid) : pid \in LocalIds}
    /\ rt = NewRuntime
    /\ out = <<>>
    /\ now = 0
    /\ crashed = FALSE
    /\ env = Scenario(1, FALSE, FALSE, FALSE, FALSE, MaxPending)
    /\ frames = NoFrames
    /\ board = NoBoard
    /\ codec \in {[stage |-> "built", msg |-> msg] : msg \in NetworkMessages}

\* the sender marshals the message and writes the frame
Send ==
    /\ codec.stage = "built"
    /\ codec' = [stage |-> "sent", msg |-> codec.msg, wire |-> Marshal(codec.msg)]
    /\ UNCHANGED <<g, rt, out, now, crashed, env, frames, board>>

\* the receive loop of the peer decodes the frame
Receive ==
    /\ codec.stage = "sent"
    /\ codec' = [stage |-> "received", msg |-> codec.msg, wire |-> codec.wire,
                 got |-> Unmarshal(codec.wire)]
    /\ UNCHANGED <<g, rt, out, now, crashed, env, frames, board>>

CodecNext == Send \/ Receive

CodecSpec == CodecInit /\ [][CodecNext]_vars

----------------------------------------------------------------------------
(* What the claims are stated with.                                        *)

\* the frames of the last step that went to connection c
SentTo(c) == {i \in DOMAIN out : out[i].to = c}
StartFrames == {i \in DOMAIN out : out[i].frame.type = "lobby_update" /\ out[i].frame.started}

\* what update can make of this state, for every frame time and key
\* combination the main loop can have in it
TickResults ==
    {update(M, dt, k, now) :
        dt \in {d \in Deltas : g.State # "Gameplay" => d = 0},
        k \in {x \in Keys : x.eat => env.food}}

\* what the other threads can make of this state: a receive loop with any
\* frame that can arrive and does not end the process, the accept loop, a
\* dial, an announcement
ThreadResults ==
    {received(M, c, msg, now) : c \in ConnIds, msg \in {f \in Arriving : ~Panics(M, f)}}
    \cup {accepted(M, c) : c \in FreeIds}
    \cup {connected(M, c) : c \in FreeIds}
    \cup {sendLobbyUpdate(M)}

\* steps of the state machine, told by what only they change
HostAction == rt'.listenQ > rt.listenQ
JoinAction == rt'.dialQ > rt.dialQ
DialCompleted == g'.ServerConn # g.ServerConn /\ g'.ServerConn # NoConn
LoopStep == \E c \in ConnIds, msg \in InFrames : Process(c, msg)

----------------------------------------------------------------------------
(* C1: every mutation of the peer map is mutually exclusive with every     *)
(* other mutation and with every full read of it: while a receive loop is  *)
(* inside processNetworkMessage, no other loop enters it and no other      *)
(* thread changes the map.                                                 *)
C1_MapAccessExclusive ==
    [][InMap # {} =>
          /\ InMap' \subseteq InMap
          /\ InMap' = InMap => g'.NetworkPlayers = g.NetworkPlayers]_vars

(* C2: no received frame terminates the process: no step of a receive loop *)
(* is the end of the process, whatever the frame's kind, payload and id.   *)
C2_NoFrameEndsProcess ==
    [][\A c \in ConnIds, msg \in InFrames : ~Panic(c, msg)]_vars

(* C3: startGame is reached only on a host, from toggleReady, when after   *)
(* the toggle participantCount >= 2 and the own-ready flag is true; a      *)
(* toggleReady below the threshold, or one that turns ready off, or one on *)
(* a non-host, never changes the session state.                            *)
C3_StartOnlyByReadyHost ==
    /\ \A m \in TickResults :
          "startGame" \in m.calls =>
              /\ g.State = "Lobby"
              /\ "toggleReady" \in m.calls
              /\ g.IsHost
              /\ PlayerCount(g) >= MinPlayers
              /\ ~g.LobbyReady
    /\ \A m \in ThreadResults : "startGame" \notin m.calls
    /\ LET t == toggleReady(M)
       IN  (PlayerCount(g) < MinPlayers \/ g.LobbyReady \/ ~g.IsHost) =>
               (t.g.State = g.State /\ "startGame" \notin t.calls)

\* a host has just started a match from its lobby
C3_Witness ==
    /\ g.State = "Gameplay" /\ g.IsHost /\ g.GameStarted /\ g.LobbyReady
    /\ PlayerCount(g) >= MinPlayers
    /\ StartFrames # {}

(* C4: a host toggleReady that starts the match emits exactly one          *)
(* LobbyUpdate broadcast: no step writes more than one LobbyUpdate with    *)
(* matchStarted = true to the same client connection.                      *)
C4_OneStartBroadcast ==
    \A c \in ConnIds : Cardinality(SentTo(c) \cap StartFrames) <= 1

(* C5: a non-host in Lobby that processes a LobbyUpdate with matchStarted  *)
(* = true is in Gameplay with elapsed time 0 when the processing returns;  *)
(* a LobbyUpdate processed in any other session state, or one carrying     *)
(* matchStarted = false, leaves session state and elapsed time unchanged.  *)
C5_ClientFollowsStart ==
    \A c \in ConnIds, msg \in Arriving :
        (~crashed /\ Reading(c) /\ msg.type = "lobby_update" /\ ~Panics(M, msg)) =>
            LET m == received([M EXCEPT !.rt.conn[c].pc = "read"], c, msg, now)
            IN  IF msg.started /\ g.State = "Lobby"
                THEN ~g.IsHost => (m.g.State = "Gameplay" /\ m.g.GameTime = 0)
                ELSE m.g.State = g.State /\ m.g.GameTime = g.GameTime

\* a client that did not start anything itself is in a match: a LobbyUpdate
\* of its host has moved it there
C5_Witness ==
    /\ g.State = "Gameplay" /\ ~g.IsHost /\ g.ServerConn # NoConn
    /\ ~g.GameStarted /\ g.GameTime = 0

(* C6: only the host originates a match start: no LobbyUpdate sent by a    *)
(* process that joined as a client carries matchStarted = true, and a host *)
(* changes its session state only in its main loop or on a dial of its     *)
(* own, never because of a message it received.                            *)
C6_OnlyHostStarts ==
    [][/\ g'.ServerConn # NoConn => StartFrames' = {}
       /\ (g.IsHost /\ g'.State # g.State) => ~LoopStep]_vars

OriginalEdges ==
    { <<"Menu", "Lobby">>, <<"Menu", "Gameplay">>, <<"Lobby", "Gameplay">>,
      <<"Gameplay", "GameOver">>, <<"GameOver", "Menu">>, <<"GameOver", "Lobby">> }

C8_SinglePlayerAlone ==
    [][(g.State = "Menu" /\ g'.State = "Gameplay") => Peers(g') = {}]_vars

C11_RoleImmutable ==
    [][/\ g.IsHost => (g'.IsHost /\ g'.ServerConn = NoConn)
       /\ g.ServerConn # NoConn => (g'.ServerConn = g.ServerConn /\ ~g'.IsHost)]_vars

(* C12: with ticks of positive delta arriving, a process in Gameplay       *)
(* always eventually reaches GameOver.                                     *)
C12_MatchEnds == (g.State = "Gameplay") ~> (g.State = "GameOver")

(* C13: on confirmation in GameOver a process with a multiplayer role      *)
(* returns to Lobby with elapsed time 0, own-ready false, matchStarted     *)
(* false and the local player reset, its connections and PeerRecords kept; *)
(* a process without a role returns to Menu with an empty peer map.        *)
C13_AfterGameOver ==
    \A k \in {x \in Keys : x.enter \/ x.space} :
        g.State = "GameOver" =>
            LET m == update(M, 0, k, now)
            IN  IF HasRole(g)
                THEN /\ m.g.State = "Lobby"
                     /\ m.g.GameTime = 0
                     /\ ~m.g.LobbyReady /\ ~m.g.GameStarted
                     /\ m.g.Player = [Size |-> StartSize, Score |-> 0]
                     /\ m.g.NetworkPlayers = g.NetworkPlayers
                     /\ m.g.ClientConns = g.ClientConns
                     /\ m.g.ServerConn = g.ServerConn
                     /\ m.g.IsHost = g.IsHost
                     /\ m.rt = rt
                ELSE /\ m.g.State = "Menu"
                     /\ Peers(m.g) = {}

\* a match with a role and a peer has run out: the confirmation is due
C13_Witness ==
    g.State = "GameOver" /\ HasRole(g) /\ Peers(g) # {} /\ g.ClientConns # <<>>

\* how long the record of peer i has not been refreshed, in seconds
Age(i) == now - g.NetworkPlayers[i].LastSeen

(* C14: a processed player_update leaves exactly one record for its sender *)
(* id, holding the snapshot of that update, and leaves the record of every *)
(* other id as it was: after any sequence of them the map has one record   *)
(* per distinct id seen, with the most recently processed snapshot.        *)
C14_LastUpdateWins ==
    \A c \in ConnIds, msg \in Arriving :
        (/\ ~crashed /\ Reading(c)
         /\ msg.type = "player_update" /\ ~msg.bad /\ ~Panics(M, msg)) =>
            LET m == received([M EXCEPT !.rt.conn[c].pc = "read"], c, msg, now)
            IN  /\ Peers(m.g) = Peers(g) \cup {msg.id}
                /\ m.g.NetworkPlayers[msg.id].Size = msg.size
                /\ \A i \in Peers(g) \ {msg.id} :
                      m.g.NetworkPlayers[i] = g.NetworkPlayers[i]

\* two senders have each had an update processed: one record each
C14_Witness ==
    /\ Cardinality(Peers(g)) = 2
    /\ \A i \in Peers(g) : g.NetworkPlayers[i].Size = 40

(* C15: on a Gameplay tick the sweep removes a PeerRecord if and only if   *)
(* now - lastSeen is strictly greater than 5 seconds; a record aged        *)
(* exactly 5 seconds is retained, and the records retained are unchanged.  *)
C15_SweepOverFive ==
    (g.State = "Gameplay" /\ ~crashed) =>
        \A m \in TickResults :
            /\ Peers(m.g) = {i \in Peers(g) : ~(Age(i) > StaleSeconds)}
            /\ \A i \in Peers(m.g) : m.g.NetworkPlayers[i] = g.NetworkPlayers[i]

\* a match is running with a record aged exactly 5 seconds, kept by the ticks
C15_Witness ==
    g.State = "Gameplay" /\ ~crashed /\ \E i \in Peers(g) : Age(i) = StaleSeconds

(* C16: eviction runs only while the session state is Gameplay: in Menu,   *)
(* Lobby and GameOver no step removes a PeerRecord because of its age (the *)
(* only removal is the reset of the map by a role-less process that        *)
(* confirms GameOver).                                                     *)
C16_SweepOnlyInGameplay ==
    [][g.State # "Gameplay" =>
          \/ Peers(g) \subseteq Peers(g')
          \/ /\ g.State = "GameOver" /\ ~HasRole(g)
             /\ g'.State = "Menu" /\ Peers(g') = {}]_vars

\* a lobby holds a record older than 5 seconds
C16_Witness ==
    g.State = "Lobby" /\ ~crashed /\ \E i \in Peers(g) : Age(i) > StaleSeconds

(* C17: in every reachable state the peer map contains no record whose id  *)
(* equals the local PlayerID, whatever messages are received.              *)
C17_NoLocalRecord == g.PlayerID \notin Peers(g)

C19_BadPayloadIgnored ==
    \A c \in ConnIds, msg \in Arriving :
        (~crashed /\ Reading(c) /\ msg.bad /\ ~Panics(M, msg)) =>
            LET m == received([M EXCEPT !.rt.conn[c].pc = "read"], c, msg, now)
            IN  /\ Peers(m.g) = Peers(g)
                /\ \A i \in Peers(g) : m.g.NetworkPlayers[i].Size = g.NetworkPlayers[i].Size

(* C20: when a receive loop hits a stream error or a decode failure, on a  *)
(* host and on a client alike, the loop exits and its connection is        *)
(* closed, every other connection and its loop are as before, and the peer *)
(* map and the session state are unchanged.                                *)
C20_FailureClosesConn ==
    [][\A c \in ConnIds :
          (rt.conn[c].pc = "read" /\ rt'.conn[c].pc = "done" /\ ~crashed') =>
              /\ rt'.conn[c].st = "closed"
              /\ \A d \in ConnIds \ {c} : rt'.conn[d] = rt.conn[d]
              /\ g' = g]_vars

Range(s) == {s[i] : i \in DOMAIN s}

\* the step that led here was one of a listen or of a dial that failed
ListenFailed == rt'.listenQ < rt.listenQ /\ rt'.listening = rt.listening /\ ~crashed'
DialFailed == rt'.dialQ < rt.dialQ /\ g'.ServerConn = g.ServerConn /\ ~crashed'

(* C21: in a host broadcast a write failure on one connection does not     *)
(* keep the frame from the others: every frame a host has written in a     *)
(* step has been written to every connection of its outbound set.          *)
C21_BroadcastReachesAll ==
    (g.IsHost /\ ~crashed) =>
        \A i \in DOMAIN out : \A c \in Range(g.ClientConns) :
            \E j \in DOMAIN out : out[j].to = c /\ out[j].frame = out[i].frame

\* a broadcast whose write to one connection failed has gone on to the next
C21_Witness ==
    /\ g.IsHost
    /\ \E i, j \in DOMAIN out :
          /\ i < j /\ out[i].to # out[j].to /\ out[i].frame = out[j].frame
          /\ ~out[i].ok /\ out[j].ok

(* C22: after a listen failure or a dial failure the process is not left   *)
(* in a multiplayer Lobby: it has a role from before, or it is not in      *)
(* Lobby.                                                                  *)
C22_FailureLeavesNoLobby ==
    [][(ListenFailed \/ DialFailed) => (HasRole(g') \/ g'.State # "Lobby")]_vars

(* C23: whenever the session state is Lobby the transport is active: the   *)
(* process is a host with a bound listening socket or a client with an     *)
(* open server connection.                                                 *)
C23_LobbyHasTransport ==
    (g.State = "Lobby" /\ ~crashed) =>
        \/ g.IsHost /\ rt.listening
        \/ g.ServerConn # NoConn /\ rt.conn[g.ServerConn].st = "open"

(* C24: while the session state is Menu the process sends no LobbyUpdate   *)
(* and no PlayerUpdate, and no received message is applied to the peer     *)
(* map.                                                                    *)
C24_MenuIsQuiet ==
    [][g.State = "Menu" =>
          (out' = <<>> /\ g'.NetworkPlayers = g.NetworkPlayers)]_vars

PlayerUpdates == {i \in DOMAIN out : out[i].frame.type = "player_update"}

(* C25: a PlayerUpdate is sent only by a tick of a process with a          *)
(* multiplayer role that leaves it in Gameplay, with the elapsed time, in  *)
(* sixtieths of a second, a multiple of 10: none in Menu, Lobby, GameOver, *)
(* and none on the tick that moves Gameplay to GameOver.                   *)
C25_PlayerUpdateOnlyInMatch ==
    PlayerUpdates # {} =>
        /\ g.State = "Gameplay" /\ HasRole(g)
        /\ g.GameTime % BroadcastInterval = 0
        /\ g.GameTime < g.MaxGameTime
        /\ \A i \in PlayerUpdates :
              out[i].frame.id = g.PlayerID /\ out[i].frame.size = g.Player.Size

\* a tick in the middle of a match has sent the snapshot
C25_Witness ==
    PlayerUpdates # {} /\ g.GameTime > 0 /\ g.Player.Size > StartSize


\* the receive loop of the server connection c takes a LobbyUpdate of the
\* host off it and applies it
MirrorsUpdate(c, msg) ==
    /\ rt.conn[c].kind = "dialed"
    /\ g.ServerConn = c
    /\ msg.type = "lobby_update"
    /\ ~msg.bad
    /\ Process(c, msg)

\* C29: after a client has processed a LobbyUpdate of the host, the
\* participant count the client uses and shows (len(NetworkPlayers) + 1) is
\* the participant count the update carried, also in a session of three.
C29_ClientMirrorsCount ==
    [][\A c \in ConnIds, msg \in InFrames :
          MirrorsUpdate(c, msg) => PlayerCount(g') = msg.count]_vars


\* the outbound connections of this process that are open, and those among
\* them whose receive loop (handleServerMessages) is running
OpenDialed == {c \in ConnIds : rt.conn[c].kind = "dialed" /\ rt.conn[c].st = "open"}
ServerLoops == {c \in OpenDialed : rt.conn[c].pc \in {"read", "proc"}}

\* C30: a client process has at any time at most one open outbound server
\* connection and at most one running receive loop on one, whatever the
\* sequence of join actions, dial completions and returns to Menu.
C30_OneServerConn == Cardinality(OpenDialed) <= 1 /\ Cardinality(ServerLoops) <= 1


\* broadcast attempts among the 60 frames that start with frame a
SentInWindow(a) == {k \in frames.sent : k >= a /\ k < a + TickRate}

\* C26: in a match of a process with a role that runs in frames of 1/60 s,
\* every 60 consecutive frames hold exactly 6 broadcast attempts.
C26_SixPerSecond ==
    HasRole(g) =>
        \A a \in 1..frames.n :
            a + TickRate - 1 <= frames.n =>
                Cardinality(SentInWindow(a)) = TickRate \div BroadcastInterval


\* the place of the entry called name in the list r
Place(r, name) == CHOOSE i \in DOMAIN r : r[i].Name = name
Names(r) == [i \in DOMAIN r |-> r[i].Name]
Ranked == board.results # <<>>

\* the sizes of the spec's example: A (Player 2) 40, B (Player 3) 55, Self 30
IsExample ==
    /\ g.Player.Size = 30
    /\ Peers(g) = {2, 3}
    /\ g.NetworkPlayers[2].Size = 40
    /\ g.NetworkPlayers[3].Size = 55

\* C27: getGameResults returns the local player and every peer on record,
\* each once, ordered by size non-increasing, whatever the peer map, the
\* local size and the order the map was visited in; for A 40, B 55 and
\* Self 30 the order is B, A, Self.
C27_RankedBySize ==
    Ranked =>
        /\ Len(board.results) = PlayerCount(g)
        /\ \E i \in DOMAIN board.results :
               board.results[i] = [Name |-> "You", Size |-> g.Player.Size]
        /\ \A id \in Peers(g) : \E i \in DOMAIN board.results :
               board.results[i] = [Name |-> PeerName(id), Size |-> g.NetworkPlayers[id].Size]
        /\ \A i, j \in DOMAIN board.results :
               i < j => board.results[i].Size >= board.results[j].Size
        /\ IsExample => Names(board.results) = <<PeerName(3), PeerName(2), "You">>

C27_Witness ==
    /\ Ranked
    /\ IsExample
    /\ Names(board.unsorted) = <<"You", PeerName(2), PeerName(3)>>
    /\ Names(board.results) = <<PeerName(3), PeerName(2), "You">>

\* C28: the ranking is stable: entries of equal size are in the result in
\* the order they had in the unsorted list.
C28_RankingStable ==
    Ranked =>
        \A i, j \in DOMAIN board.unsorted :
            (i < j /\ board.unsorted[i].Size = board.unsorted[j].Size) =>
                Place(board.results, board.unsorted[i].Name)
                    < Place(board.results, board.unsorted[j].Name)


\* keys of a frame: none, Enter on the first menu entry, Escape
NoKey == Key(FALSE, FALSE, FALSE, 0, FALSE)
EnterKey == Key(TRUE, FALSE, FALSE, 0, FALSE)
EscapeKey == Key(FALSE, FALSE, TRUE, 0, FALSE)

\* the main loop has a step that takes the session towards Menu: Escape in
\* Lobby, a confirmation in GameOver, the match clock in Gameplay
WayBack ==
    /\ g.State \in {"Menu", "Lobby", "GameOver", "Gameplay"}
    /\ g.State = "Lobby" => update(M, 0, EscapeKey, now).g.State = "Menu"
    /\ g.State = "GameOver" => update(M, 0, EnterKey, now).g.State \in {"Menu", "Lobby"}
    /\ g.State = "Gameplay" =>
           \E dt \in Deltas \ {0} :
               LET m == update(M, dt, NoKey, now)
               IN  m.g.State = "GameOver" \/ m.g.GameTime > g.GameTime

\* C31: there is no terminal session state: in every reachable state the
\* main loop runs and takes some input or tick, and Menu can be reached
\* again (Lobby and GameOver in either role included).
C31_NoTerminalState == ~crashed /\ WayBack

\* the same while the process runs
RunningHasWayBack == ~crashed => WayBack


\* C32: lastSeen of a PeerRecord never decreases while the record lives:
\* every processed update of its id sets it to a time not earlier than the
\* value it had.
C32_LastSeenMonotone ==
    [][\A i \in Peers(g) \cap Peers(g') :
          g'.NetworkPlayers[i].LastSeen >= g.NetworkPlayers[i].LastSeen]_vars


\* C33: encoding a message and decoding the frame gives an equivalent
\* message: same kind, same sender id, same payload fields, for
\* lobby_update and player_update, size 0, score 0 and an empty host
\* address (left out on the wire) included.
C33_RoundTrip ==
    /\ codec.stage \in {"sent", "received"} =>
           ("server_ip" \in DOMAIN codec.wire.data
               <=> (codec.msg.Type = "lobby_update" /\ codec.msg.Data.ServerIP # ""))
    /\ codec.stage = "received" => codec.got = codec.msg

\* a client's lobby update, whose address is empty, has been received
C33_Witness ==
    /\ codec.stage = "received"
    /\ codec.msg.Type = "lobby_update"
    /\ codec.msg.Data.ServerIP = ""
    /\ codec.msg.Data.HostReady /\ ~codec.msg.Data.GameStarted
    /\ "server_ip" \notin DOMAIN codec.wire.data
    /\ codec.got = codec.msg


\* C34: a LobbyUpdate that starts clients is sent by a host that is in
\* Gameplay: a host that is in GameOver (its matchStarted not yet reset) or
\* anywhere else sends none, so a client back in its lobby is not started
\* into a match the host is not in.
C34_StartSentInGameplay ==
    [][(g.IsHost /\ LoopStep) =>
          \A i \in DOMAIN out' :
              (out'[i].frame.type = "lobby_update" /\ out'[i].frame.started) =>
                  g'.State = "Gameplay"]_vars


\* C35: the connections a host broadcasts to are live: every accepted
\* connection is in the set once and has one receive loop, and a connection
\* whose loop has ended and which is closed is no longer in the set.
C35_OnlyLiveConns ==
    ~crashed =>
        /\ \A i, j \in DOMAIN g.ClientConns : g.ClientConns[i] = g.ClientConns[j] => i = j
        /\ \A c \in Range(g.ClientConns) :
               /\ rt.conn[c].kind = "accepted"
               /\ rt.conn[c].st = "open"
               /\ rt.conn[c].pc \in {"read", "proc"}


\* the client connections of a host that are open with their loops running
LiveClients ==
    {c \in Range(g.ClientConns) :
        rt.conn[c].st = "open" /\ rt.conn[c].pc \in {"read", "proc"}}

\* a host with two clients connected has a record of a peer
HostOfTwo ==
    /\ ~crashed /\ g.IsHost
    /\ Cardinality(LiveClients) >= 2
    /\ Peers(g) # {}

\* the last step wrote a frame of another participant to a client
Relayed ==
    \E i \in DOMAIN out :
        /\ out[i].to \in Range(g.ClientConns)
        /\ out[i].frame.type = "player_update"
        /\ out[i].frame.id \in Peers(g) \ {g.PlayerID}

\* C36: with one host and two or more clients that stay connected and keep
\* broadcasting, every process comes to hold a record of every other
\* participant: what the host learns of one client reaches the other
\* clients, for as long as they stay connected.
C36_PeersReachClients ==
    HostOfTwo ~> (Relayed \/ crashed \/ Cardinality(LiveClients) < 2)


\* no step of a host writes a frame of another participant
NothingRelayed == ~Relayed


\* the host starts a match from its lobby (startGame)
HostStarts ==
    /\ g.IsHost /\ g.State = "Lobby" /\ ~g.GameStarted
    /\ g'.State = "Gameplay" /\ g'.GameStarted

\* C37: when the host starts a match at least one client connection is
\* open: peers that disconnected while the host was in Lobby do not count
\* towards the minimum of players.
C37_StartNeedsOpenConn ==
    [][HostStarts => \E c \in Range(g.ClientConns) : rt.conn[c].st = "open"]_vars


\* the lobby screen of the host announces that the game will begin shortly
ReadyLobby ==
    /\ ~crashed /\ g.IsHost /\ g.State = "Lobby"
    /\ g.LobbyReady /\ PlayerCount(g) >= MinPlayers

\* C38: a host in Lobby that is ready with participantCount >= 2 gets its
\* match started without further input of the host, also when the second
\* participant joined after the host readied.
C38_ReadyLobbyStarts ==
    ReadyLobby ~> (g.State = "Gameplay" \/ g.State = "Menu" \/ crashed)

\* a frame without input leaves the announced lobby as it is
IdleLobbyStays == ReadyLobby => update(M, 0, NoKey, now).g = g


\* the frames of the writes of machine m that are PlayerUpdates
UpdatesOf(m) == {i \in DOMAIN m.out : m.out[i].frame.type = "player_update"}

\* C39: a match entered by selecting single player from Menu sends no
\* PlayerUpdate in Gameplay and goes back to Menu, not to Lobby, when its
\* GameOver is confirmed, from every reachable Menu, also after the process
\* hosted or joined a session earlier and left its lobby.
C39_SinglePlayerLocal ==
    [][(g.State = "Menu" /\ g'.State = "Gameplay") =>
          LET m == Machine(g', rt')
          IN  /\ \A dt \in Deltas, k \in Keys : UpdatesOf(update(m, dt, k, now')) = {}
              /\ handleGameOverInput([m EXCEPT !.g.State = "GameOver"], EnterKey).g.State
                     = "Menu"]_vars


\* C40: while the process stays in GameOver its ranked results do not
\* change: no PeerRecord is created or removed and none has its size
\* modified, also when peers whose match still runs keep sending updates.
C40_GameOverFrozen ==
    [][(g.State = "GameOver" /\ g'.State = "GameOver") =>
          /\ Peers(g') = Peers(g)
          /\ \A i \in Peers(g) : g'.NetworkPlayers[i].Size = g.NetworkPlayers[i].Size
          /\ g'.Player = g.Player]_vars

====
